---- MODULE Spec2Model ----
(***************************************************************************)
(* Timeline clip placement of the video track view: the drag and resize    *)
(* sessions of VideoTrackView (handleMouseDown, handleResize) over the     *)
(* geometry that calculateBounds reads from the rendered track.            *)
(*                                                                         *)
(* Numbers.  The handlers compute in floating point over pixels, percent   *)
(* and milliseconds.  The model computes the same expressions in fixed     *)
(* point: a pixel length is an integer count of 1/Sub pixel, a CSS percent *)
(* an integer count of 1/Sub percent, a time an integer count of           *)
(* milliseconds.  With the rendered widths of Widths every quotient the    *)
(* handlers form is exact in these units (ExactGeometry checks it); the    *)
(* only roundings are the ones the program performs: toFixed(2), the       *)
(* integer offsetLeft/offsetWidth of the DOM, and Math.round at commit.    *)
(* A timeline of rendered width 0 makes the handlers divide by zero; the   *)
(* IEEE results of those divisions are written out where they occur (NaN). *)
(*                                                                         *)
(* Specifications.  Spec: one session at a time over a healthy DOM.        *)
(* FaultSpec: one session at a time while the timeline container or the    *)
(* clip element can go missing, the timeline can have width 0 and a clip's *)
(* media item can be absent.  ConcSpec: listeners of two clips registered  *)
(* on the document at once, every document event handled by each of them   *)
(* in registration order.                                                  *)
(***************************************************************************)
EXTENDS Integers, Sequences, FiniteSets, TLC

\* ------------------------------------------------------------------ bounds
MaxSessions == 2      \* pointer-down events in one behaviour
MaxMoves == 2         \* pointer-move events in one session

\* ------------------------------------------------------- units, constants
Sub == 300            \* fixed point: 1/300 of a pixel, 1/300 of a percent
minDuration == 1000
defaultMaxDuration == 5000
gridMs == 100         \* commit grid of handleResize.handleMouseUp

Min(a, b) == IF a < b THEN a ELSE b
Max(a, b) == IF a > b THEN a ELSE b

\* Math.round(value / d) * d : nearest multiple, ties towards +infinity.
MathRound(value, d) == ((2 * value + d) \div (2 * d)) * d

\* An integer count of CSS pixels (clientX, offsetLeft, offsetWidth).
Px(n) == n * Sub

\* ------------------------------------------------------------------ inputs
Widths == {300, 1000}

\* resolveDuration(media): <<d>> when the media carries a duration,
\* <<>> when it is unresolved (null).
Unresolved == <<>>

\* mediaItems.find(...) found no item for the frame's mediaId
NotFound == << 0, 0 >>

\* The not-a-number the handlers produce from 0 / 0.  Math.round(NaN / 100)
\* * 100 is NaN again, and every comparison with it is false in the source.
NaN == 0 - 30 * 1000 * 1000
Infinity == 2 ^ 30

\* x / 0 in IEEE arithmetic
DivideByZero(x) == IF x = 0 THEN NaN ELSE IF x > 0 THEN Infinity ELSE 0 - Infinity

Clip(ts, dur, res) == [timestamp |-> ts, duration |-> dur, resolved |-> res]

\* Tracks as the store returns them: ascending timestamp, no overlap,
\* inside the timeline, durations within [minDuration, max].
Tracks ==
  { << Clip(0, 5000, Unresolved) >>,
    << Clip(0, 1000, Unresolved), Clip(1000, 2000, <<2500>>),
       Clip(3000, 2000, <<4950>>) >>,
    << Clip(3000, 2000, Unresolved), Clip(27000, 3000, <<4000>>) >>,
    << Clip(0, 4000, <<4000>>), Clip(4000, 1000, Unresolved) >> }

DownXs == {500}                    \* clientX of a pointer-down
Deltas == {-300, -40, 20, 100, 300}
MoveXs == { x + d : x \in DownXs, d \in Deltas }

VARIABLES
  parentWidth,    \* timelineElement.offsetWidth, CSS pixels
  frame,          \* frame[i]: the in-memory key frame (timestamp, duration)
  media,          \* media[i]: resolved duration of the clip's media
  style,          \* style[i]: trackElement.style left/width, 1/Sub %
  session,        \* session[i]: the closure of the listeners registered for clip i
  store,          \* db.keyFrames: stored timestamp, duration per clip
  nUpdates,       \* db.keyFrames.update calls issued
  lastUpdate,     \* payload of the last db.keyFrames.update
  invalidations,  \* queryClient.invalidateQueries calls issued
  nSessions,      \* pointer-downs so far
  dom,            \* dom.element: trackRef.current is set; dom.timeline:
                  \* closest(".timeline-container") finds the container
  dispatch,       \* the document's listeners and the event being dispatched
  async,          \* the store's operations in flight and what has completed
  analytics       \* the analytics dialog: media items, statistics, analyses

\* The timeline's part of the state
timeline == << parentWidth, frame, media, style, session, store,
               nUpdates, lastUpdate, invalidations, nSessions, dom, dispatch,
               async >>

vars == << parentWidth, frame, media, style, session, store,
           nUpdates, lastUpdate, invalidations, nSessions, dom, dispatch,
           async, analytics >>

n == Len(frame)   \* key frames of the track, in order
Clips == 1 .. n

\* Mutant: the element is rendered whether or not the media item exists.
RenderedWithoutMedia(i) == TRUE

\* if (!media) return null : a frame without media item renders no element
Rendered(i) == media[i] # NotFound /\ i \notin async.deleted

\* previousElementSibling / nextElementSibling among the rendered clips;
\* 0 when there is none
previousTrack(i) ==
  IF \E j \in 1 .. i - 1 : Rendered(j)
  THEN CHOOSE j \in 1 .. i - 1 :
         Rendered(j) /\ \A k \in j + 1 .. i - 1 : ~Rendered(k)
  ELSE 0
nextTrack(i) ==
  IF \E j \in i + 1 .. n : Rendered(j)
  THEN CHOOSE j \in i + 1 .. n :
         Rendered(j) /\ \A k \in i + 1 .. j - 1 : ~Rendered(k)
  ELSE 0

\* ---------------------------------------------------- coordinate mapping
\* (pixels / parentWidth) * 30 * 1000
PixelsToMs(pixels) ==
  IF parentWidth = 0 THEN DivideByZero(pixels)
  ELSE (pixels * ((30 * 1000) \div Sub)) \div parentWidth

\* (ms / 1000 / 30) * parentWidth
MsToPixels(ms) == (ms * parentWidth) \div ((1000 * 30) \div Sub)

\* (pixels / parentWidth) * 100
PixelsToPercent(pixels) ==
  IF parentWidth = 0 THEN DivideByZero(pixels)
  ELSE (pixels * 100) \div parentWidth

\* (percent * parentWidth) / 100, also the CSS layout of a percentage
PercentToPixels(percent) == (percent * parentWidth) \div 100

\* ((ms / 30) * 100) / 1000 : the percentage written without toFixed
MsToPercent(ms) == (ms * 100) \div ((30 * 1000) \div Sub)

\* Mutant: toFixed(1), the percentage rounded to 0.1 %.
ToFixed1Percent(ms) == MathRound(MsToPercent(ms), Sub \div 10)

\* (ms / 30 / 10).toFixed(2) : the percentage rounded to 0.01 %
ToFixed2Percent(ms) == MathRound(MsToPercent(ms), Sub \div 100)

\* ------------------------------------------------------------ DOM geometry
\* getBoundingClientRect() of clip i, relative to timelineRect.left
RectLeft(i) == PercentToPixels(style[i].left)
RectWidth(i) == PercentToPixels(style[i].width)
RectRight(i) == RectLeft(i) + RectWidth(i)

\* offsetLeft / offsetWidth: the layout value rounded to whole pixels
OffsetLeft(i) == MathRound(RectLeft(i), Sub)
OffsetWidth(i) == MathRound(RectWidth(i), Sub)

timelineWidth == Px(parentWidth)

resolveDuration(m) == m

\* Mutant: calculateBounds never returns null.
boundsAlwaysAvailable == TRUE

\* if (!timelineElement || !timelineRect) return null
boundsAvailable == dom.timeline

\* The bounds calculateBounds returns when the timeline container is found.
calculateBounds(i) ==
  LET leftBoundPixels == IF previousTrack(i) # 0
                         THEN RectRight(previousTrack(i)) ELSE 0
      rightBoundPixels == IF nextTrack(i) # 0
                          THEN RectLeft(nextTrack(i)) - RectWidth(i)
                          ELSE timelineWidth - RectWidth(i)
  IN [ leftBoundPixels |-> leftBoundPixels,
       rightBoundPixels |-> rightBoundPixels,
       leftBoundPercent |-> PixelsToPercent(leftBoundPixels),
       rightBoundPercent |-> PixelsToPercent(rightBoundPixels) ]

\* ----------------------------------------------------------------- sessions
NoBounds == [ leftBoundPixels |-> 0, rightBoundPixels |-> 0,
              leftBoundPercent |-> 0, rightBoundPercent |-> 0 ]

\* No listener registered for the clip.  startDuration, moves, clientX,
\* newLeft and boundsLost record history: the duration at pointer-down, the
\* pointer-moves handled, the last event's clientX, the last move's local
\* newLeft, and whether a move of the session found no bounds.
Idle == [ kind |-> "Idle", direction |-> "none", startX |-> 0, startLeft |-> 0,
          startWidth |-> 0, startTimestamp |-> 0, bounds |-> NoBounds,
          startDuration |-> 0, moves |-> 0, clientX |-> 0, newLeft |-> 0,
          boundsLost |-> FALSE ]

NoUpdate == [ id |-> 0, fields |-> {}, timestamp |-> 0, duration |-> 0 ]

NoSession == \A i \in Clips : session[i].kind = "Idle"

\* VideoTrackRow: left/width rendered from the frame with toFixed(2)
RenderedStyle(f) == [ left |-> ToFixed2Percent(f.timestamp),
                      width |-> ToFixed2Percent(f.duration) ]

NoDispatch == [ listeners |-> << >>, pending |-> << >>, type |-> "none",
                clientX |-> 0, concurrent |-> FALSE,
                path |-> << >>,
                down |-> [ clip |-> 0, target |-> "none", clientX |-> 0,
                           listeners |-> 0 ] ]

\* Nothing in flight: every row of the store is completed and the preview
\* has read it.  lastCommit records the resize commit handled last.
NoAsync(rows) ==
  [ pending |-> << >>, committed |-> rows, completed |-> 0,
    reads |-> << >>, preview |-> rows,
    deleting |-> {}, deleted |-> {}, rejected |-> {}, refreshes |-> 0,
    lastCommit |-> [ id |-> 0, moves |-> 0, direction |-> "none",
                     timestamp |-> 0 ] ]

\* The analytics dialog is closed.
NoAnalytics == [ view |-> "closed" ]

timelineInit(widths, tracks) ==
  /\ parentWidth \in widths
  /\ \E t \in tracks :
        /\ frame = [ i \in 1 .. Len(t) |->
                       [ timestamp |-> t[i].timestamp, duration |-> t[i].duration ] ]
        /\ media = [ i \in 1 .. Len(t) |-> t[i].resolved ]
        /\ style = [ i \in 1 .. Len(t) |-> RenderedStyle(t[i]) ]
        /\ store = [ i \in 1 .. Len(t) |->
                       [ timestamp |-> t[i].timestamp, duration |-> t[i].duration ] ]
        /\ session = [ i \in 1 .. Len(t) |-> Idle ]
  /\ nUpdates = 0
  /\ lastUpdate = NoUpdate
  /\ invalidations = 0
  /\ nSessions = 0
  /\ dom = [ element |-> TRUE, timeline |-> TRUE ]
  /\ dispatch = NoDispatch
  /\ async = NoAsync(store)

InitOf(widths, tracks) ==
  timelineInit(widths, tracks) /\ analytics = NoAnalytics

Init == InitOf(Widths, Tracks)

\* ------------------------------------------------------------------- drag
\* handleMouseDown: capture startX, startLeft and the bounds, register the
\* listeners.
handleMouseDown(i, clientX) ==
  /\ Rendered(i)
  /\ nSessions < MaxSessions
  /\ session' = [ session EXCEPT ![i] =
        IF dom.element /\ boundsAvailable
        THEN [ kind |-> "Dragging", direction |-> "none", startX |-> Px(clientX),
               startLeft |-> OffsetLeft(i), startWidth |-> 0,
               startTimestamp |-> frame[i].timestamp,
               bounds |-> calculateBounds(i),
               startDuration |-> frame[i].duration, moves |-> 0,
               clientX |-> Px(clientX), newLeft |-> OffsetLeft(i),
               boundsLost |-> FALSE ]
        ELSE @ ]
  /\ nSessions' = nSessions + 1
  /\ UNCHANGED << dom, parentWidth, frame, media, style, store, nUpdates,
                  lastUpdate, invalidations >>

\* Mutant: each move adds its delta from the previous move to the offset
\* the previous move reached.
dragNewLeftFromPrevious(s, clientX) ==
  LET deltaX == clientX - s.clientX
      newLeft == s.newLeft + deltaX
  IN IF newLeft < s.bounds.leftBoundPixels THEN s.bounds.leftBoundPixels
     ELSE IF newLeft > s.bounds.rightBoundPixels THEN s.bounds.rightBoundPixels
     ELSE newLeft

\* newLeft of the drag's handleMouseMove
dragNewLeft(s, clientX) ==
  LET deltaX == clientX - s.startX
      newLeft == s.startLeft + deltaX
  IN IF newLeft < s.bounds.leftBoundPixels THEN s.bounds.leftBoundPixels
     ELSE IF newLeft > s.bounds.rightBoundPixels THEN s.bounds.rightBoundPixels
     ELSE newLeft

\* Mutant: the seconds value stored without the conversion to milliseconds.
dragTimestampSeconds(newLeft) ==
  LET newTimestamp == PixelsToMs(newLeft) \div 1000
  IN IF newTimestamp < 0 THEN 0 ELSE newTimestamp

\* Mutant: the drag rounds the timestamp to the grid before storing it.
dragTimestampRounded(newLeft) ==
  LET newTimestamp == PixelsToMs(newLeft)
  IN IF newTimestamp < 0 THEN 0 ELSE MathRound(newTimestamp, gridMs)

\* frame.timestamp of the drag's handleMouseMove
dragTimestamp(newLeft) ==
  LET newTimestamp == PixelsToMs(newLeft)
  IN IF newTimestamp # NaN /\ newTimestamp < 0 THEN 0 ELSE newTimestamp

\* Mutant: the drag's update also writes a duration.
dragUpdateWithDuration(i, ts) == [ id |-> i, fields |-> {"timestamp", "duration"},
                                   timestamp |-> ts, duration |-> ts ]

\* The drag's db.keyFrames.update(frame.id, { timestamp })
dragUpdate(i, ts) == [ id |-> i, fields |-> {"timestamp"},
                       timestamp |-> ts, duration |-> 0 ]

\* The rows after the keyed update u: only the named fields of row u.id
applyUpdate(rows, u) ==
  [ rows EXCEPT ![u.id] =
      [ timestamp |-> IF "timestamp" \in u.fields THEN u.timestamp ELSE @.timestamp,
        duration |-> IF "duration" \in u.fields THEN u.duration ELSE @.duration ] ]

\* Mutant: the update stores a new record instead of changing row u.id.
dbCreate(u) ==
  Append(store, [ timestamp |-> u.timestamp, duration |-> u.duration ])

\* db.keyFrames.update(id, changes): store holds the rows as they are once
\* every update issued so far has completed.
dbUpdate(u) == applyUpdate(store, u)

\* style.left / style.width assignment: an invalid value ("NaN%") is
\* dropped by the CSS parser and the old value stays.
CssPercent(old, ms, percent) == IF ms = NaN THEN old ELSE percent

handleMouseDown_handleMouseMove(i, clientX) ==
  /\ session[i].kind = "Dragging"
  /\ session[i].moves < MaxMoves
  /\ LET s == session[i]
         ts == dragTimestamp(dragNewLeft(s, Px(clientX)))
     IN /\ frame' = [ frame EXCEPT ![i].timestamp = ts ]
        /\ style' = [ style EXCEPT ![i].left = CssPercent(@, ts, MsToPercent(ts)) ]
        /\ store' = dbUpdate(dragUpdate(i, ts))
        /\ lastUpdate' = dragUpdate(i, ts)
        /\ nUpdates' = nUpdates + 1
  /\ session' = [ session EXCEPT ![i].moves = @ + 1, ![i].clientX = Px(clientX),
                                  ![i].newLeft = dragNewLeft(session[i], Px(clientX)) ]
  /\ UNCHANGED << dom, parentWidth, media, invalidations, nSessions >>

\* Mutant: the drag's pointer-up removes the listeners without invalidating.
handleMouseUpWithoutInvalidate(i) ==
  /\ session[i].kind = "Dragging"
  /\ session' = [ session EXCEPT ![i] = Idle ]
  /\ UNCHANGED << dom, parentWidth, frame, media, style, store, nUpdates,
                  lastUpdate, nSessions, invalidations >>

\* Mutant: the drag's pointer-up stores the timestamp once more.
handleMouseUpStoring(i) ==
  /\ session[i].kind = "Dragging"
  /\ session' = [ session EXCEPT ![i] = Idle ]
  /\ invalidations' = invalidations + 1
  /\ store' = dbUpdate(dragUpdate(i, frame[i].timestamp))
  /\ lastUpdate' = dragUpdate(i, frame[i].timestamp)
  /\ nUpdates' = nUpdates + 1
  /\ UNCHANGED << dom, parentWidth, frame, media, style, nSessions >>

handleMouseDown_handleMouseUp(i) ==
  /\ session[i].kind = "Dragging"
  /\ session' = [ session EXCEPT ![i] = Idle ]
  /\ invalidations' = invalidations + 1
  /\ UNCHANGED << dom, parentWidth, frame, media, style, store, nUpdates,
                  lastUpdate, nSessions >>

\* ----------------------------------------------------------------- resize
\* handleResize: capture startX, startWidth, startLeft, startTimestamp; the
\* bounds computed here only decide whether the session starts.
handleResize(i, direction, clientX) ==
  /\ Rendered(i)
  /\ nSessions < MaxSessions
  /\ session' = [ session EXCEPT ![i] =
        IF dom.element /\ boundsAvailable
        THEN [ kind |-> "Resizing", direction |-> direction,
               startX |-> Px(clientX),
               startLeft |-> OffsetLeft(i), startWidth |-> OffsetWidth(i),
               startTimestamp |-> frame[i].timestamp,
               bounds |-> calculateBounds(i),
               startDuration |-> frame[i].duration, moves |-> 0,
               clientX |-> Px(clientX), newLeft |-> OffsetLeft(i),
               boundsLost |-> FALSE ]
        ELSE @ ]
  /\ nSessions' = nSessions + 1
  /\ UNCHANGED << dom, parentWidth, frame, media, style, store, nUpdates,
                  lastUpdate, invalidations >>

\* resolveDuration(media) ?? 5000
maxDurationOf(i) ==
  IF resolveDuration(media[i]) = Unresolved THEN defaultMaxDuration
  ELSE resolveDuration(media[i])[1]

\* Mutant: the proposed left offset is not held at the previous clip's bound.
resizeLeftNewLeftUnbounded(i, s, clientX) ==
  LET deltaX == clientX - s.startX
      endPoint == s.startLeft + s.startWidth
      proposedLeftPercent == PixelsToPercent(s.startLeft + deltaX)
      maxLeftPercent == PixelsToPercent(endPoint - MsToPixels(minDuration))
  IN PercentToPixels(Min(maxLeftPercent, proposedLeftPercent))

\* Left branch of the resize's handleMouseMove: newLeft under the previous
\* clip's bound and the minimum duration.
resizeLeftNewLeft(i, s, clientX) ==
  LET currentBounds == calculateBounds(i)
      deltaX == clientX - s.startX
      endPoint == s.startLeft + s.startWidth
      proposedLeftPercent == PixelsToPercent(s.startLeft + deltaX)
      constrainedLeftPercent ==
        Max(currentBounds.leftBoundPercent, proposedLeftPercent)
      maxLeftPercent == PixelsToPercent(endPoint - MsToPixels(minDuration))
  IN IF currentBounds.leftBoundPercent = NaN \/ maxLeftPercent = NaN
     THEN NaN      \* Math.max and Math.min return NaN for a NaN argument
     ELSE PercentToPixels(Min(maxLeftPercent, constrainedLeftPercent))

\* Right branch: newWidth under the next clip's bound.
resizeRightNewWidth(i, s, clientX) ==
  LET currentBounds == calculateBounds(i)
      deltaX == clientX - s.startX
      newWidth == s.startWidth + deltaX
      maxWidth == currentBounds.rightBoundPixels + OffsetLeft(i) + OffsetWidth(i)
  IN Min(newWidth, maxWidth - OffsetLeft(i))

\* Mutant: the right branch moves the timestamp by the pointer's delta.
resizeMoveShiftingTimestamp(i, s, clientX) ==
  LET left == s.direction = "left"
      endPoint == s.startLeft + s.startWidth
      newLeft == resizeLeftNewLeft(i, s, clientX)
      newWidth == IF left THEN endPoint - newLeft
                  ELSE resizeRightNewWidth(i, s, clientX)
      timestamp1 == IF left THEN Max(0, PixelsToMs(newLeft))
                    ELSE Max(0, frame[i].timestamp + PixelsToMs(clientX - s.startX))
      newDuration == PixelsToMs(newWidth)
      maxDuration == maxDurationOf(i)
  IN IF newDuration < minDuration
     THEN [ duration |-> minDuration, timestamp |-> timestamp1 ]
     ELSE IF newDuration > maxDuration
     THEN [ duration |-> maxDuration, timestamp |-> timestamp1 ]
     ELSE [ duration |-> newDuration, timestamp |-> timestamp1 ]

\* The resize's handleMouseMove: the frame's new timestamp and duration.
resizeMove(i, s, clientX) ==
  LET left == s.direction = "left"
      endPoint == s.startLeft + s.startWidth
      newLeft == resizeLeftNewLeft(i, s, clientX)
      newWidth == IF left THEN endPoint - newLeft
                  ELSE resizeRightNewWidth(i, s, clientX)
      timestamp1 == IF left THEN Max(0, PixelsToMs(newLeft))
                    ELSE frame[i].timestamp
      newDuration == PixelsToMs(newWidth)
      maxDuration == maxDurationOf(i)
  IN IF left /\ newLeft = NaN
     THEN [ duration |-> NaN, timestamp |-> NaN ]
     ELSE IF newDuration = NaN
     THEN [ duration |-> NaN, timestamp |-> timestamp1 ]
     ELSE IF newDuration < minDuration
     THEN [ duration |-> minDuration,
            timestamp |-> IF left
                          THEN PixelsToMs(endPoint - MsToPixels(minDuration))
                          ELSE timestamp1 ]
     ELSE IF newDuration > maxDuration
     THEN [ duration |-> maxDuration,
            timestamp |-> IF left
                          THEN PixelsToMs(endPoint - MsToPixels(maxDuration))
                          ELSE timestamp1 ]
     ELSE [ duration |-> newDuration, timestamp |-> timestamp1 ]

handleResize_handleMouseMove(i, clientX) ==
  /\ session[i].kind = "Resizing"
  /\ session[i].moves < MaxMoves
  /\ LET s == session[i]
         f == resizeMove(i, s, Px(clientX))
     IN IF boundsAvailable
        THEN /\ frame' = [ frame EXCEPT ![i] = f ]
             /\ style' = [ style EXCEPT ![i] =
                   [ width |-> CssPercent(@.width, f.duration,
                                          MsToPercent(f.duration)),
                     left |-> IF s.direction = "left"
                              THEN CssPercent(@.left, f.timestamp,
                                              ToFixed2Percent(f.timestamp))
                              ELSE @.left ] ]
        ELSE UNCHANGED << frame, style >>     \* if (!currentBounds) return
  /\ session' = [ session EXCEPT ![i].moves = @ + 1, ![i].clientX = Px(clientX),
                                  ![i].boundsLost = @ \/ ~boundsAvailable ]
  /\ UNCHANGED << dom, parentWidth, media, store, nUpdates, lastUpdate,
                  invalidations, nSessions >>

\* Mutant: Math.floor in place of Math.round.
floorToGrid(value) == (value \div gridMs) * gridMs

\* Mutant: always the next grid line.
nextGridLine(value) == (value \div gridMs + 1) * gridMs

\* Math.round(value / 100) * 100
roundToGrid(value) == IF value = NaN THEN NaN ELSE MathRound(value, gridMs)

\* Mutant: the resize's update carries the duration only.
resizeUpdateDurationOnly(i, f) == [ id |-> i, fields |-> {"duration"},
                                    timestamp |-> f.timestamp,
                                    duration |-> f.duration ]

\* The resize's db.keyFrames.update(frame.id, { duration, timestamp })
resizeUpdate(i, f) == [ id |-> i, fields |-> {"duration", "timestamp"},
                        timestamp |-> f.timestamp, duration |-> f.duration ]

\* Mutant: a resize without a pointer-move ends without rounding, update or
\* invalidation.
handleResizeMouseUpIfMoved(i) ==
  /\ session[i].kind = "Resizing"
  /\ LET f == IF session[i].moves = 0 THEN frame[i]
              ELSE [ duration |-> roundToGrid(frame[i].duration),
                     timestamp |-> roundToGrid(frame[i].timestamp) ]
     IN /\ frame' = [ frame EXCEPT ![i] = f ]
        /\ IF session[i].moves = 0
           THEN UNCHANGED << style, store, lastUpdate, nUpdates, invalidations >>
           ELSE /\ style' = [ style EXCEPT ![i] =
                     [ width |-> MsToPercent(f.duration),
                       left |-> ToFixed2Percent(f.timestamp) ] ]
                /\ store' = dbUpdate(resizeUpdate(i, f))
                /\ lastUpdate' = resizeUpdate(i, f)
                /\ nUpdates' = nUpdates + 1
                /\ invalidations' = invalidations + 1
  /\ session' = [ session EXCEPT ![i] = Idle ]
  /\ UNCHANGED << dom, parentWidth, media, nSessions >>

handleResize_handleMouseUp(i) ==
  /\ session[i].kind = "Resizing"
  /\ LET f == [ duration |-> roundToGrid(frame[i].duration),
                timestamp |-> roundToGrid(frame[i].timestamp) ]
     IN /\ frame' = [ frame EXCEPT ![i] = f ]
        /\ style' = [ style EXCEPT ![i] =
              [ width |-> CssPercent(@.width, f.duration, MsToPercent(f.duration)),
                left |-> CssPercent(@.left, f.timestamp,
                                    ToFixed2Percent(f.timestamp)) ] ]
        /\ store' = dbUpdate(resizeUpdate(i, f))
        /\ lastUpdate' = resizeUpdate(i, f)
        /\ nUpdates' = nUpdates + 1
  /\ invalidations' = invalidations + 1
  /\ session' = [ session EXCEPT ![i] = Idle ]
  /\ UNCHANGED << dom, parentWidth, media, nSessions >>

\* ------------------------------------------------------------ specification
\* One session at a time: a pointer-down arrives only when no listener is
\* registered, so every document event has exactly one listener.
Next ==
  \/ \E i \in Clips, x \in DownXs :
        NoSession /\ handleMouseDown(i, x) /\ UNCHANGED << dispatch, async, analytics >>
  \/ \E i \in Clips, x \in MoveXs :
        handleMouseDown_handleMouseMove(i, x) /\ UNCHANGED << dispatch, async, analytics >>
  \/ \E i \in Clips :
        handleMouseDown_handleMouseUp(i) /\ UNCHANGED << dispatch, async, analytics >>
  \/ \E i \in Clips, d \in {"left", "right"}, x \in DownXs :
        NoSession /\ handleResize(i, d, x) /\ UNCHANGED << dispatch, async, analytics >>
  \/ \E i \in Clips, x \in MoveXs :
        handleResize_handleMouseMove(i, x) /\ UNCHANGED << dispatch, async, analytics >>
  \/ \E i \in Clips :
        handleResize_handleMouseUp(i) /\ UNCHANGED << dispatch, async, analytics >>

Spec == Init /\ [][Next]_vars

\* ------------------------------------------------- specification with faults
FaultWidths == {0, 300}

FaultTracks ==
  { << Clip(0, 1000, Unresolved), Clip(1000, 2000, NotFound),
       Clip(3000, 2000, <<4950>>) >> }

FaultDeltas == {-40, 100, 300}
FaultMoveXs == { x + d : x \in DownXs, d \in FaultDeltas }

FaultInit == InitOf(FaultWidths, FaultTracks)

\* The environment detaches or re-attaches the clip element or the timeline
\* container (unmount, re-render).
domChange(d) ==
  /\ d # dom
  /\ dom' = d
  /\ UNCHANGED << parentWidth, frame, media, style, session, store, nUpdates,
                  lastUpdate, invalidations, nSessions, dispatch, async, analytics >>

FaultNext ==
  \/ \E i \in Clips, x \in DownXs :
        NoSession /\ handleMouseDown(i, x) /\ UNCHANGED << dispatch, async, analytics >>
  \/ \E i \in Clips, x \in FaultMoveXs :
        handleMouseDown_handleMouseMove(i, x) /\ UNCHANGED << dispatch, async, analytics >>
  \/ \E i \in Clips :
        handleMouseDown_handleMouseUp(i) /\ UNCHANGED << dispatch, async, analytics >>
  \/ \E i \in Clips, d \in {"left", "right"}, x \in DownXs :
        NoSession /\ handleResize(i, d, x) /\ UNCHANGED << dispatch, async, analytics >>
  \/ \E i \in Clips, x \in FaultMoveXs :
        handleResize_handleMouseMove(i, x) /\ UNCHANGED << dispatch, async, analytics >>
  \/ \E i \in Clips :
        handleResize_handleMouseUp(i) /\ UNCHANGED << dispatch, async, analytics >>
  \/ \E d \in [ element : BOOLEAN, timeline : BOOLEAN ] : domChange(d)

FaultSpec == FaultInit /\ [][FaultNext]_vars

\* ------------------------------------ specification with the store in flight
\* One session at a time; db.keyFrames.update and the preview's re-read
\* after invalidateQueries are not awaited and complete later, in any order
\* relative to each other; the clip's delete mutation settles later.
MaxPending == 2       \* store updates, and preview re-reads, in flight

StoreWidths == {1000}

StoreTracks ==
  { << Clip(1200, 2000, <<2500>>) >> }

StoreDeltas == {7}
StoreMoveXs == { x + d : x \in DownXs, d \in StoreDeltas }

StoreInit == InitOf(StoreWidths, StoreTracks)

\* What the handler's step on clip i left in flight: the update it issued,
\* the re-read its invalidation causes.
issued(i) ==
  LET committing == session[i].kind = "Resizing" /\ session'[i].kind = "Idle"
  IN async' = [ async EXCEPT
       !.pending = IF nUpdates' # nUpdates THEN Append(@, lastUpdate') ELSE @,
       !.reads = IF invalidations' # invalidations
                 THEN Append(@, [ after |-> nUpdates', commit |-> committing,
                                  update |-> lastUpdate' ])
                 ELSE @,
       !.lastCommit = IF committing
                      THEN [ id |-> i, moves |-> session[i].moves,
                             direction |-> session[i].direction,
                             timestamp |-> frame[i].timestamp ]
                      ELSE @ ]

\* The oldest update in flight completes.
completeUpdate ==
  /\ async.pending # << >>
  /\ LET u == Head(async.pending)
     IN async' = [ async EXCEPT
          !.pending = Tail(@),
          !.completed = @ + 1,
          !.committed = IF u.id \in async.deleted THEN @ ELSE applyUpdate(@, u) ]
  /\ UNCHANGED << dom, parentWidth, frame, media, style, session, store,
                  nUpdates, lastUpdate, invalidations, nSessions, dispatch, analytics >>

\* The preview's query function reads the store.
previewRead ==
  /\ async.reads # << >>
  /\ async' = [ async EXCEPT !.reads = Tail(@), !.preview = async.committed ]
  /\ UNCHANGED << dom, parentWidth, frame, media, style, session, store,
                  nUpdates, lastUpdate, invalidations, nSessions, dispatch, analytics >>

\* handleOnDelete: deleteKeyframe.mutate() starts db.keyFrames.delete(frame.id)
handleOnDelete(i) ==
  /\ Rendered(i)
  /\ NoSession
  /\ i \notin async.deleting
  /\ async' = [ async EXCEPT !.deleting = @ \cup {i} ]
  /\ UNCHANGED << dom, parentWidth, frame, media, style, session, store,
                  nUpdates, lastUpdate, invalidations, nSessions, dispatch, analytics >>

\* Mutant: the cache is refreshed when the mutation settles, either way.
deleteSettledRefreshing(i, ok) ==
  /\ i \in async.deleting
  /\ async' = [ async EXCEPT
       !.deleting = @ \ {i},
       !.deleted = IF ok THEN @ \cup {i} ELSE @,
       !.rejected = IF ok THEN @ ELSE @ \cup {i},
       !.refreshes = @ + 1 ]
  /\ UNCHANGED << dom, parentWidth, frame, media, style, session, store,
                  nUpdates, lastUpdate, invalidations, nSessions, dispatch, analytics >>

\* The mutation settles: mutationFn resolved (ok) and onSuccess runs
\* refreshVideoCache, or it rejected and no callback is registered.
deleteSettled(i, ok) ==
  /\ i \in async.deleting
  /\ async' = [ async EXCEPT
       !.deleting = @ \ {i},
       !.deleted = IF ok THEN @ \cup {i} ELSE @,
       !.rejected = IF ok THEN @ ELSE @ \cup {i},
       !.refreshes = IF ok THEN @ + 1 ELSE @ ]
  /\ UNCHANGED << dom, parentWidth, frame, media, style, session, store,
                  nUpdates, lastUpdate, invalidations, nSessions, dispatch, analytics >>

StoreNext ==
  \/ \E i \in Clips, x \in DownXs :
        NoSession /\ handleMouseDown(i, x) /\ issued(i) /\ UNCHANGED << dispatch, analytics >>
  \/ \E i \in Clips, x \in StoreMoveXs :
        /\ Len(async.pending) < MaxPending
        /\ handleMouseDown_handleMouseMove(i, x) /\ issued(i)
        /\ UNCHANGED << dispatch, analytics >>
  \/ \E i \in Clips :
        /\ Len(async.reads) < MaxPending
        /\ handleMouseDown_handleMouseUp(i) /\ issued(i) /\ UNCHANGED << dispatch, analytics >>
  \/ \E i \in Clips, d \in {"left", "right"}, x \in DownXs :
        NoSession /\ handleResize(i, d, x) /\ issued(i) /\ UNCHANGED << dispatch, analytics >>
  \/ \E i \in Clips, x \in StoreMoveXs :
        handleResize_handleMouseMove(i, x) /\ issued(i) /\ UNCHANGED << dispatch, analytics >>
  \/ \E i \in Clips :
        /\ Len(async.pending) < MaxPending /\ Len(async.reads) < MaxPending
        /\ handleResize_handleMouseUp(i) /\ issued(i) /\ UNCHANGED << dispatch, analytics >>
  \/ completeUpdate
  \/ previewRead
  \/ \E i \in Clips : handleOnDelete(i)
  \/ \E i \in Clips, ok \in BOOLEAN : deleteSettled(i, ok)

StoreSpec == StoreInit /\ [][StoreNext]_vars

\* ------------------------------------- specification with concurrent sessions
ConcWidths == {1000}

ConcTracks ==
  { << Clip(0, 1200, <<1200>>), Clip(6000, 1200, <<1200>>) >> }

ConcDownXs == {100, 900}          \* two pointers, one over each clip
ConcMoveXs == {150, 860}

ConcInit == InitOf(ConcWidths, ConcTracks)

Registered == { dispatch.listeners[k] : k \in 1 .. Len(dispatch.listeners) }

\* document.addEventListener("mousemove", ...) / ("mouseup", ...) of the
\* pointer-down on clip i, when the handler got that far
addEventListener(i) ==
  dispatch' = IF session'[i].kind = "Idle" THEN dispatch
              ELSE [ dispatch EXCEPT
                       !.listeners = Append(@, i),
                       !.concurrent = dispatch.listeners # << >> ]

\* Mutant: pointer-up leaves the listeners registered.
removeEventListenerKeeping(i) == dispatch

\* document.removeEventListener of clip i's pair of listeners
removeEventListener(i) ==
  LET kept == SelectSeq(dispatch.listeners, LAMBDA j : j # i)
  IN [ dispatch EXCEPT !.listeners = kept ]

\* Mutant: a document event goes to the listener registered last only.
documentEventToLast(type, clientX) ==
  /\ dispatch.pending = << >>
  /\ dispatch.listeners # << >>
  /\ type = "mousemove" =>
        \A i \in Registered : session[i].moves < MaxMoves
  /\ dispatch' = [ dispatch EXCEPT
        !.pending = << dispatch.listeners[Len(dispatch.listeners)] >>,
        !.type = type, !.clientX = clientX ]
  /\ UNCHANGED << dom, parentWidth, frame, media, style, session, store,
                  nUpdates, lastUpdate, invalidations, nSessions, async, analytics >>

\* The browser takes the next document event: every listener registered at
\* that time will handle it, in registration order.
documentEvent(type, clientX) ==
  /\ dispatch.pending = << >>
  /\ dispatch.listeners # << >>
  /\ type = "mousemove" =>
        \A i \in Registered : session[i].moves < MaxMoves
  /\ dispatch' = [ dispatch EXCEPT !.pending = dispatch.listeners,
                                   !.type = type, !.clientX = clientX ]
  /\ UNCHANGED << dom, parentWidth, frame, media, style, session, store,
                  nUpdates, lastUpdate, invalidations, nSessions, async, analytics >>

\* The listener at the head of the dispatch handled the event.
handled(i) ==
  LET rest == Tail(dispatch.pending)
      d == IF dispatch.type = "mouseup" THEN removeEventListener(i) ELSE dispatch
  IN dispatch' = [ d EXCEPT !.pending = rest,
                            !.type = IF rest = << >> THEN "none" ELSE @ ]

Dispatching(type, i) ==
  /\ dispatch.pending # << >>
  /\ dispatch.type = type
  /\ i = Head(dispatch.pending)

ConcNext ==
  \/ \E i \in Clips, x \in ConcDownXs :
        /\ dispatch.pending = << >> /\ session[i].kind = "Idle"
        /\ handleMouseDown(i, x) /\ addEventListener(i) /\ UNCHANGED << async, analytics >>
  \/ \E i \in Clips, d \in {"left", "right"}, x \in ConcDownXs :
        /\ dispatch.pending = << >> /\ session[i].kind = "Idle"
        /\ handleResize(i, d, x) /\ addEventListener(i) /\ UNCHANGED << async, analytics >>
  \/ \E x \in ConcMoveXs : documentEvent("mousemove", x)
  \/ documentEvent("mouseup", 0)
  \/ \E i \in Clips :
        /\ Dispatching("mousemove", i)
        /\ handleMouseDown_handleMouseMove(i, dispatch.clientX) /\ handled(i) /\ UNCHANGED << async, analytics >>
  \/ \E i \in Clips :
        /\ Dispatching("mousemove", i)
        /\ handleResize_handleMouseMove(i, dispatch.clientX) /\ handled(i) /\ UNCHANGED << async, analytics >>
  \/ \E i \in Clips :
        /\ Dispatching("mouseup", i)
        /\ handleMouseDown_handleMouseUp(i) /\ handled(i) /\ UNCHANGED << async, analytics >>
  \/ \E i \in Clips :
        /\ Dispatching("mouseup", i)
        /\ handleResize_handleMouseUp(i) /\ handled(i) /\ UNCHANGED << async, analytics >>

ConcSpec == ConcInit /\ [][ConcNext]_vars

\* ----------------------------- specification with the pointer-down propagating
\* A mousedown on clip i propagates from its target, a resize handle or the
\* clip's body, up the elements: the handle's onMouseDown is handleResize,
\* the enclosing clip element's onMouseDown is handleMouseDown. The handlers
\* run one after the other before anything else happens.
Targets == {"body", "left", "right"}

\* The onMouseDown handlers on the way from the target up, innermost first
propagationPath(target) ==
  IF target = "body" THEN << "handleMouseDown" >>
  ELSE << "handleResize", "handleMouseDown" >>

\* Mutant: the handle's handler lets the event go on to the clip element.
stopPropagationIgnored(rest) == rest

\* e.stopPropagation(): no handler further up the path runs
stopPropagation(rest) == << >>

\* The browser takes a mousedown on clip i at the target.
mouseDownEvent(i, target, clientX) ==
  /\ Rendered(i)
  /\ session[i].kind = "Idle"
  /\ nSessions < MaxSessions
  /\ dispatch.pending = << >> /\ dispatch.path = << >>
  /\ dispatch' = [ dispatch EXCEPT
        !.path = propagationPath(target),
        !.down = [ clip |-> i, target |-> target, clientX |-> clientX,
                   listeners |-> Len(dispatch.listeners) ] ]
  /\ UNCHANGED << dom, parentWidth, frame, media, style, session, store,
                  nUpdates, lastUpdate, invalidations, nSessions, async, analytics >>

\* The handler at the head of the path ran and registered its listeners;
\* rest is what is left of the path.
propagated(i, rest) ==
  dispatch' = [ dispatch EXCEPT
      !.path = rest,
      !.listeners = IF session'[i].kind = "Idle" THEN @ ELSE Append(@, i),
      !.concurrent = IF session'[i].kind = "Idle" THEN @
                     ELSE dispatch.listeners # << >> ]

\* onMouseDown of a resize handle
onMouseDownHandle ==
  /\ dispatch.path # << >> /\ Head(dispatch.path) = "handleResize"
  /\ handleResize(dispatch.down.clip, dispatch.down.target, dispatch.down.clientX)
  /\ propagated(dispatch.down.clip, stopPropagation(Tail(dispatch.path)))
  /\ UNCHANGED << async, analytics >>

\* onMouseDown of the clip element
onMouseDownClip ==
  /\ dispatch.path # << >> /\ Head(dispatch.path) = "handleMouseDown"
  /\ handleMouseDown(dispatch.down.clip, dispatch.down.clientX)
  /\ propagated(dispatch.down.clip, Tail(dispatch.path))
  /\ UNCHANGED << async, analytics >>

PropNext ==
  \/ \E i \in Clips, t \in Targets, x \in ConcDownXs : mouseDownEvent(i, t, x)
  \/ onMouseDownHandle
  \/ onMouseDownClip
  \/ \E x \in ConcMoveXs : dispatch.path = << >> /\ documentEvent("mousemove", x)
  \/ dispatch.path = << >> /\ documentEvent("mouseup", 0)
  \/ \E i \in Clips :
        /\ Dispatching("mousemove", i)
        /\ handleMouseDown_handleMouseMove(i, dispatch.clientX) /\ handled(i) /\ UNCHANGED << async, analytics >>
  \/ \E i \in Clips :
        /\ Dispatching("mousemove", i)
        /\ handleResize_handleMouseMove(i, dispatch.clientX) /\ handled(i) /\ UNCHANGED << async, analytics >>
  \/ \E i \in Clips :
        /\ Dispatching("mouseup", i)
        /\ handleMouseDown_handleMouseUp(i) /\ handled(i) /\ UNCHANGED << async, analytics >>
  \/ \E i \in Clips :
        /\ Dispatching("mouseup", i)
        /\ handleResize_handleMouseUp(i) /\ handled(i) /\ UNCHANGED << async, analytics >>

PropSpec == ConcInit /\ [][PropNext]_vars

\* ------------------------------------------------- analytics: model statistics
MaxItems == 2         \* media items of the project

undefined == "undefined"

\* Endpoint ids as their "/"-separated parts: item.endpointId undefined, and ""
NoEndpoint == << undefined >>
EmptyEndpoint == << >>

\* !endpointId
falsy(endpointId) == endpointId \in {NoEndpoint, EmptyEndpoint}

EndpointIds ==
  { NoEndpoint, EmptyEndpoint,
    << "fal-ai", "minimax" >>,
    << "fal-ai", "minimax", "image-to-video" >>,
    << "fal-ai", "kling-video", "v1", "pro", "text-to-video" >> }

Kinds == {"generated", "uploaded"}
Ratings == {"positive", "negative", undefined, "neutral"}

MediaItems == [ kind : Kinds, endpointId : EndpointIds, rating : Ratings ]

SeqsUpTo(S, k) == UNION { [ 1 .. m -> S ] : m \in 0 .. k }

\* p.startsWith("v"): the parts that occur and pass
startsWithV == {"v1", "v1.5", "v1.6", "v2"}

\* parts.find(test), test given as the set of the parts it accepts
find(parts, test) ==
  LET found == SelectSeq(parts, LAMBDA p : p \in test)
  IN IF found = << >> THEN undefined ELSE Head(found)

\* modelId.replace("/" + part, ""): the first occurrence, after a "/"
replace(parts, part) ==
  IF \E k \in 2 .. Len(parts) : parts[k] = part
  THEN LET k == CHOOSE j \in 2 .. Len(parts) :
                  parts[j] = part /\ \A h \in 2 .. j - 1 : parts[h] # part
       IN SubSeq(parts, 1, k - 1) \o SubSeq(parts, k + 1, Len(parts))
  ELSE parts

normalizeModelId(modelId) ==
  LET version == find(modelId, startsWithV)
      variant == find(modelId, {"standard", "pro"})
  IN IF falsy(modelId) THEN modelId
     ELSE IF /\ \E k \in 1 .. Len(modelId) : modelId[k] = "kling-video"
             /\ version # undefined /\ variant # undefined
     THEN << "fal-ai", "kling-video", version, variant >>
     ELSE replace(replace(modelId, "image-to-video"), "text-to-video")

\* Mutant: items of every kind are counted.
countedOfAnyKind(item) == ~falsy(item.endpointId)

\* if (item.kind !== "generated" || !item.endpointId) continue
counted(item) == item.kind = "generated" /\ ~falsy(item.endpointId)

\* The keys of byModel, in insertion order
RECURSIVE byModelKeys(_)
byModelKeys(items) ==
  IF items = << >> THEN << >>
  ELSE LET keys == byModelKeys(SubSeq(items, 1, Len(items) - 1))
           item == items[Len(items)]
           normalizedId == normalizeModelId(item.endpointId)
       IN IF ~counted(item) \/ \E k \in 1 .. Len(keys) : keys[k] = normalizedId
          THEN keys
          ELSE Append(keys, normalizedId)

\* (count / total) * 100, as the fraction numerator / denominator
Rate(count, total) == IF total > 0 THEN << count * 100, total >> ELSE << 0, 1 >>

\* byModel.get(modelId) mapped to its statistics
modelStatsOf(modelId, mediaItems) ==
  LET items == SelectSeq(mediaItems, LAMBDA i :
                 counted(i) /\ normalizeModelId(i.endpointId) = modelId)
      total == Len(items)
      positive == Len(SelectSeq(items, LAMBDA i : i.rating = "positive"))
      negative == Len(SelectSeq(items, LAMBDA i : i.rating = "negative"))
      unrated == Len(SelectSeq(items, LAMBDA i : i.rating = undefined))
  IN [ modelId |-> modelId, totalGenerations |-> total,
       positive |-> positive, negative |-> negative, unrated |-> unrated,
       positiveRate |-> Rate(positive, total),
       negativeRate |-> Rate(negative, total),
       unratedRate |-> Rate(unrated, total) ]

calculateModelStats(mediaItems) ==
  LET keys == byModelKeys(mediaItems)
  IN [ k \in 1 .. Len(keys) |-> modelStatsOf(keys[k], mediaItems) ]

\* The dialog before its first render, with the project's media items
StatsInit ==
  /\ timelineInit(StoreWidths, StoreTracks)
  /\ \E items \in SeqsUpTo(MediaItems, MaxItems) :
       analytics = [ view |-> "stats", mediaItems |-> items,
                     rendered |-> FALSE, modelStats |-> << >> ]

\* AnalyticsDialog renders: modelStats = calculateModelStats(mediaItems)
AnalyticsDialog ==
  /\ ~analytics.rendered
  /\ analytics' = [ analytics EXCEPT
        !.rendered = TRUE,
        !.modelStats = calculateModelStats(analytics.mediaItems) ]
  /\ UNCHANGED timeline

StatsNext == AnalyticsDialog

StatsSpec == StatsInit /\ [][StatsNext]_vars

\* ---------------------------------------------- analytics: prompt analysis view
MediaTypes == {"video", "image", "music", "voiceover"}

\* flags[key] of a Record<string, boolean> is truthy
truthy(flags, key) == key \in DOMAIN flags /\ flags[key]

\* results[key] of a Record<string, PromptAnalysis> is truthy
present(results, key) == key \in DOMAIN results /\ results[key] # undefined

\* { ...prev, [key]: value }
spread(prev, key, value) ==
  [ k \in DOMAIN prev \cup {key} |-> IF k = key THEN value ELSE prev[k] ]

\* useState({}) twice; no onAnalyze call is pending and none has settled
AnalyzeInit ==
  /\ timelineInit(StoreWidths, StoreTracks)
  /\ analytics = [ view |-> "prompts",
                   analysisResults |-> << >>, analyzing |-> << >>,
                   calls |-> [ c \in MediaTypes |-> 0 ],
                   outcome |-> [ c \in MediaTypes |-> "none" ] ]

\* The category's button is rendered, when no result is shown for it, and is
\* not disabled.
buttonEnabled(category) ==
  /\ ~present(analytics.analysisResults, category)
  /\ ~truthy(analytics.analyzing, category)

\* handleAnalyze up to its await: the flag is set and onAnalyze is called
handleAnalyze(category) ==
  /\ buttonEnabled(category)
  /\ analytics' = [ analytics EXCEPT
        !.analyzing = spread(@, category, TRUE),
        !.calls[category] = @ + 1 ]
  /\ UNCHANGED timeline

\* Mutant: the flag is reset after the result is stored, outside a finally.
handleAnalyzeAwaitedWithoutFinally(category, outcome, result) ==
  /\ analytics.calls[category] > 0
  /\ outcome = "rejected" => result = undefined
  /\ analytics' = [ analytics EXCEPT
        !.analysisResults = IF outcome = "resolved"
                            THEN spread(@, category, result) ELSE @,
        !.analyzing = IF outcome = "resolved"
                      THEN spread(@, category, FALSE) ELSE @,
        !.calls[category] = @ - 1,
        !.outcome[category] = outcome ]
  /\ UNCHANGED timeline

\* handleAnalyze from its await on: onAnalyze resolved with a result, which is
\* stored, or rejected; finally the flag is reset.
handleAnalyzeAwaited(category, outcome, result) ==
  /\ analytics.calls[category] > 0
  /\ outcome = "rejected" => result = undefined
  /\ analytics' = [ analytics EXCEPT
        !.analysisResults = IF outcome = "resolved"
                            THEN spread(@, category, result) ELSE @,
        !.analyzing = spread(@, category, FALSE),
        !.calls[category] = @ - 1,
        !.outcome[category] = outcome ]
  /\ UNCHANGED timeline

AnalyzeNext ==
  \/ \E c \in MediaTypes : handleAnalyze(c)
  \/ \E c \in MediaTypes, o \in {"resolved", "rejected"},
        r \in {"analysis", undefined} : handleAnalyzeAwaited(c, o, r)

AnalyzeSpec == AnalyzeInit /\ [][AnalyzeNext]_vars

\* ---------------------------------------------------------------------------
\* Prompt analysis: analyzePrompts and analyzeWithGemini (lib/analytics.ts).
\* The LLM call fal.subscribe is outside the sources; its outcome is an input.

PromptMediaTypes == {"image", "video"}

\* The media items analyzePrompts reads: kind, mediaType, input.prompt, rating
\* and endpointId. A prompt history is kept as the set of the positions of its
\* items in mediaItems, so the sort by createdAt does not show in it.
PromptItems ==
  [ kind : Kinds, mediaType : PromptMediaTypes,
    prompt : {"a prompt", undefined}, rating : {"positive", undefined},
    endpointId : {NoEndpoint, << "fal-ai", "minimax" >>} ]

\* What the awaited fal.subscribe gives: a rejection, a result without data,
\* data without output, or data.output as one of four texts
Outputs == {"json", "fenced json", "json with trailing comma", "text"}
Responses == {"rejected", "no data", undefined} \cup Outputs

NoAnalysis ==
  [ successPatterns |-> << >>, evolutionInsights |-> << >>,
    recommendations |-> << >>, sceneAnalysis |-> << >> ]

\* What JSON.parse returns for the object the system prompt asks for
ParsedAnalysis ==
  [ successPatterns |-> << "pattern" >>, evolutionInsights |-> << "insight" >>,
    recommendations |-> << "recommendation" >>, sceneAnalysis |-> << >> ]

\* The object the inner catch returns
CouldNotAnalyze ==
  [ successPatterns |-> << "Could not analyze patterns in prompts" >>,
    evolutionInsights |-> << "Could not analyze prompt evolution" >>,
    recommendations |-> << "Try more prompt variations to get better analysis" >>,
    sceneAnalysis |-> << >> ]

\* The object the outer catch returns
ErrorOccurred ==
  [ successPatterns |-> << >>, evolutionInsights |-> << >>,
    recommendations |-> << "An error occurred while analyzing prompts" >>,
    sceneAnalysis |-> << >> ]

\* data.output.trim().replace(fences, "").replace(trailing commas, "$1")
cleanedResponse(output) ==
  IF output \in {"fenced json", "json with trailing comma"} THEN "json" ELSE output

\* JSON.parse(text) returns for JSON text and throws for any other
JSONparses(text) == text = "json"

\* A variant whose outer catch rethrows
analyzeWithGeminiRethrowing(category, promptHistory, response) ==
  IF response \in {"rejected", "no data"}
    THEN [ settled |-> "rejected", value |-> NoAnalysis ]
  ELSE IF response = undefined \/ ~JSONparses(cleanedResponse(response))
    THEN [ settled |-> "resolved", value |-> CouldNotAnalyze ]
  ELSE [ settled |-> "resolved", value |-> ParsedAnalysis ]

\* analyzeWithGemini once fal.subscribe has settled with response. A rejection
\* throws in the outer try; a result without data throws in the inner try and
\* again in the inner catch (data.output), so both reach the outer catch. An
\* undefined data.output throws at .trim() and text that is no JSON throws in
\* JSON.parse: both reach the inner catch.
analyzeWithGemini(category, promptHistory, response) ==
  IF response \in {"rejected", "no data"}
    THEN [ settled |-> "resolved", value |-> ErrorOccurred ]
  ELSE IF response = undefined \/ ~JSONparses(cleanedResponse(response))
    THEN [ settled |-> "resolved", value |-> CouldNotAnalyze ]
  ELSE [ settled |-> "resolved", value |-> ParsedAnalysis ]

\* The items the grouping loop keeps for category
byCategory(mediaItems, category) ==
  { k \in 1..Len(mediaItems) :
      /\ ~(\/ mediaItems[k].kind # "generated"
           \/ mediaItems[k].prompt = undefined
           \/ mediaItems[k].rating = undefined)
      /\ mediaItems[k].mediaType = category }

\* typeof endpointId === "string"
typeofString(endpointId) == endpointId # NoEndpoint

promptHistoryOf(mediaItems, items) ==
  { k \in items :
      mediaItems[k].kind = "generated" /\ typeofString(mediaItems[k].endpointId) }

NoCall ==
  [ state |-> "none", promptHistory |-> {}, response |-> "none",
    analysis |-> NoAnalysis ]

PromptsInit ==
  /\ timelineInit(StoreWidths, StoreTracks)
  /\ \E items \in SeqsUpTo(PromptItems, MaxItems) :
       analytics = [ view |-> "analysis", mediaItems |-> items, phase |-> "idle",
                     calls |-> [c \in PromptMediaTypes |-> NoCall],
                     analyses |-> << >> ]

\* analyzePrompts up to the await of Promise.all: a category without kept items
\* has no entry, one with an empty prompt history returns null, any other
\* awaits analyzeWithGemini.
analyzePrompts ==
  /\ analytics.view = "analysis"
  /\ analytics.phase = "idle"
  /\ analytics' =
       [analytics EXCEPT
          !.phase = "pending",
          !.calls =
            [c \in PromptMediaTypes |->
               LET items == byCategory(analytics.mediaItems, c)
                   promptHistory == promptHistoryOf(analytics.mediaItems, items)
               IN IF items = {} THEN [NoCall EXCEPT !.state = "absent"]
                  ELSE IF Cardinality(promptHistory) = 0
                    THEN [NoCall EXCEPT !.state = "null"]
                  ELSE [NoCall EXCEPT !.state = "pending",
                                      !.promptHistory = promptHistory]]]
  /\ UNCHANGED timeline

\* fal.subscribe settles for category and analyzeWithGemini runs to its return
falSubscribeSettled(category, response) ==
  /\ analytics.view = "analysis"
  /\ analytics.phase = "pending"
  /\ analytics.calls[category].state = "pending"
  /\ LET call == analytics.calls[category]
         r == analyzeWithGemini(category, call.promptHistory, response)
     IN analytics' =
          [analytics EXCEPT
             !.calls[category] =
               [call EXCEPT !.state = r.settled, !.response = response,
                            !.analysis = r.value]]
  /\ UNCHANGED timeline

\* The position of category's first kept item: the Map's insertion order
firstOf(mediaItems, category) ==
  CHOOSE k \in byCategory(mediaItems, category) :
    \A j \in byCategory(mediaItems, category) : k <= j

\* Array.from(byCategory.entries()) mapped to results, nulls filtered out
RECURSIVE analysesOf(_, _, _)
analysesOf(mediaItems, calls, categories) ==
  IF categories = {} THEN << >>
  ELSE LET c == CHOOSE x \in categories :
                  \A y \in categories :
                    firstOf(mediaItems, x) <= firstOf(mediaItems, y)
       IN << [ category |-> c, promptHistory |-> calls[c].promptHistory,
               analysis |-> calls[c].analysis ] >>
          \o analysesOf(mediaItems, calls, categories \ {c})

\* Promise.all settles: rejected once a call rejected, resolved once all have
\* resolved; analyzePrompts then returns the analyses that are not null
analyzePromptsSettled ==
  /\ analytics.view = "analysis"
  /\ analytics.phase = "pending"
  /\ \/ /\ \E c \in PromptMediaTypes : analytics.calls[c].state = "rejected"
        /\ analytics' = [analytics EXCEPT !.phase = "rejected"]
     \/ /\ \A c \in PromptMediaTypes :
             analytics.calls[c].state \in {"absent", "null", "resolved"}
        /\ analytics' =
             [analytics EXCEPT
                !.phase = "resolved",
                !.analyses =
                  analysesOf(analytics.mediaItems, analytics.calls,
                    { c \in PromptMediaTypes :
                        analytics.calls[c].state = "resolved" })]
  /\ UNCHANGED timeline

PromptsNext ==
  \/ analyzePrompts
  \/ \E c \in PromptMediaTypes, r \in Responses : falSubscribeSettled(c, r)
  \/ analyzePromptsSettled

PromptsSpec == PromptsInit /\ [][PromptsNext]_vars

\* Every pixel, percent and millisecond value the handlers read is exact in
\* the fixed-point units.
ExactGeometry ==
  \A i \in Clips :
    /\ PercentToPixels(style[i].left) * 100 = style[i].left * parentWidth
    /\ PercentToPixels(style[i].width) * 100 = style[i].width * parentWidth
    /\ PixelsToMs(RectLeft(i)) * parentWidth = RectLeft(i) * ((30 * 1000) \div Sub)
    /\ PixelsToMs(RectWidth(i)) * parentWidth = RectWidth(i) * ((30 * 1000) \div Sub)
    /\ MsToPixels(frame[i].timestamp) * ((1000 * 30) \div Sub)
         = frame[i].timestamp * parentWidth

\* ------------------------------------------------------------------ claims
End(f) == f.timestamp + f.duration
Overlap(f, g) == f.timestamp < End(g) /\ g.timestamp < End(f)

\* C1: after any sequence of completed drag and resize sessions on a track
\* that started without overlap, no two distinct clips of the track overlap
\* in [timestamp, timestamp + duration).
C1_NoOverlapAfterSessions ==
  NoSession => \A i, j \in Clips : i # j => ~Overlap(frame[i], frame[j])

\* C2: every clip stays inside the timeline, 0 <= timestamp and
\* timestamp + duration <= 30000, at every pointer-move and after pointer-up.
C2_InsideTimeline ==
  \A i \in Clips : 0 <= frame[i].timestamp /\ End(frame[i]) <= 30 * 1000

Resizing(i, direction) ==
  session[i].kind = "Resizing" /\ session[i].direction = direction

\* The last store update is clip i's resize commit and no session is active.
JustCommitted(i) ==
  /\ NoSession
  /\ lastUpdate.id = i
  /\ lastUpdate.fields = {"duration", "timestamp"}

\* C3: after every resize pointer-move and after every resize commit,
\* minClipDurationMs (1000) <= duration <= the media's resolved duration
\* (5000 when unresolved), also when that maximum is no multiple of 100.
C3_DurationWithinLimits ==
  \A i \in Clips :
    (\/ session[i].kind = "Resizing" /\ session[i].moves > 0
     \/ JustCommitted(i))
    => /\ 1000 <= frame[i].duration
       /\ frame[i].duration <= IF media[i] = Unresolved THEN 5000 ELSE media[i][1]

\* Left edge of the next sibling, or the timeline's right edge.
RightLimit(i) ==
  IF nextTrack(i) # 0 THEN RectLeft(nextTrack(i)) ELSE timelineWidth

\* Right edge of the previous sibling, or 0.
LeftLimit(i) ==
  IF previousTrack(i) # 0 THEN RectRight(previousTrack(i)) ELSE 0

\* C4: during a right-edge resize the clip's right edge (left + new width)
\* never crosses the next sibling's left edge, or the timeline's right edge
\* when there is no next sibling, whatever the clip's start left offset.
C4_RightEdgeWithinNext ==
  \A i \in Clips :
    Resizing(i, "right") /\ session[i].moves > 0
    => RectLeft(i) + RectWidth(i) <= RightLimit(i)

\* C5: during a left-edge resize, after every pointer-move
\* timestamp + duration equals the millisecond value of the
\* startLeft + startWidth captured at pointer-down.
C5_LeftResizeAnchor ==
  \A i \in Clips :
    Resizing(i, "left") /\ session[i].moves > 0
    => End(frame[i]) * parentWidth
         = (session[i].startLeft + session[i].startWidth) * ((30 * 1000) \div Sub)

Clamp(x, lo, hi) == Min(Max(x, lo), hi)

Dragged(i) == session[i].kind = "Dragging" /\ session[i].moves > 0

\* clamp(startLeft + (pointerX - startPointerX), leftBoundPixels,
\* rightBoundPixels) with the session's captured values
ClampedLeft(i) ==
  Clamp(session[i].startLeft + (session[i].clientX - session[i].startX),
        session[i].bounds.leftBoundPixels, session[i].bounds.rightBoundPixels)

\* C6: after every pointer-move of a drag the clip's new left offset is
\* clamp(startLeft + (pointerX - startPointerX), leftBoundPixels,
\* rightBoundPixels) with the bounds captured at pointer-down, so the clip
\* starts no earlier than the previous sibling's right edge (or 0) and ends
\* no later than the next sibling's left edge (or the timeline's right edge).
C6_DragClampedToBounds ==
  \A i \in Clips :
    Dragged(i)
    => /\ session[i].newLeft = ClampedLeft(i)
       /\ LeftLimit(i) <= session[i].newLeft
       /\ session[i].newLeft + RectWidth(i) <= RightLimit(i)

\* C7: a drag never changes the clip's duration, in memory or in the store,
\* from pointer-down through every pointer-move to pointer-up, and every
\* store update a drag issues carries only the timestamp field.
C7_DragKeepsDuration ==
  [][ \A i \in Clips :
        (session[i].kind = "Dragging" \/ session'[i].kind = "Dragging")
        => /\ frame'[i].duration = frame[i].duration
           /\ store'[i].duration = store[i].duration
           /\ session'[i].kind = "Dragging"
                => frame'[i].duration = session'[i].startDuration
           /\ nUpdates' # nUpdates
                => lastUpdate'.id = i /\ lastUpdate'.fields = {"timestamp"} ]_vars

C7_Witness ==
  \E i \in Clips :
    /\ Dragged(i)
    /\ frame[i].timestamp # session[i].startTimestamp
    /\ store[i].timestamp = frame[i].timestamp
    /\ frame[i].duration = session[i].startDuration

Round100(value) == ((value + 50) \div 100) * 100

\* C9: a resize session issues no store update during pointer-moves and
\* exactly one at pointer-up; that update carries timestamp and duration,
\* each round(value / 100) * 100 of the in-memory value at pointer-up, and
\* comes with one preview invalidation.
C9_ResizeCommitsOnce ==
  [][ \A i \in Clips :
        /\ session'[i].kind = "Resizing"
             => /\ nUpdates' = nUpdates
                /\ store' = store
                /\ invalidations' = invalidations
        /\ session[i].kind = "Resizing" /\ session'[i].kind = "Idle"
             => /\ nUpdates' = nUpdates + 1
                /\ lastUpdate' = [ id |-> i, fields |-> {"timestamp", "duration"},
                                   timestamp |-> Round100(frame[i].timestamp),
                                   duration |-> Round100(frame[i].duration) ]
                /\ store'[i] = [ timestamp |-> Round100(frame[i].timestamp),
                                 duration |-> Round100(frame[i].duration) ]
                /\ invalidations' = invalidations + 1 ]_vars

\* A commit that rounded: the clamp left 4950 ms, the store holds 5000.
C9_Witness ==
  \E i \in Clips :
    /\ JustCommitted(i)
    /\ media[i] = <<4950>>
    /\ store[i].duration = 5000
    /\ invalidations = 1
    /\ nUpdates = 1

OnGrid(f) == f.timestamp % 100 = 0 /\ f.duration % 100 = 0

\* C10: resize commit is idempotent: the stored pair is the rounding of the
\* in-memory pair, rounding the stored pair again leaves it unchanged, and a
\* commit of already committed values (a session without pointer-move on
\* values on the grid) stores the same timestamp and duration again.
C10_CommitIdempotent ==
  [][ \A i \in Clips :
        session[i].kind = "Resizing" /\ session'[i].kind = "Idle"
        => /\ store'[i] = frame'[i]
           /\ Round100(store'[i].timestamp) = store'[i].timestamp
           /\ Round100(store'[i].duration) = store'[i].duration
           /\ OnGrid(frame[i]) => frame'[i] = frame[i]
           /\ OnGrid(frame[i]) /\ store[i] = frame[i] => store' = store ]_vars

\* A second commit about to happen on the values the first one stored.
C10_Witness ==
  \E i \in Clips :
    /\ session[i].kind = "Resizing"
    /\ session[i].moves = 0
    /\ lastUpdate = [ id |-> i, fields |-> {"timestamp", "duration"},
                      timestamp |-> frame[i].timestamp,
                      duration |-> frame[i].duration ]
    /\ store[i] = frame[i]

\* ---------------------------------------------------------------------------
\* C11: the preview invalidation is issued once for every session that ends
\* (at its pointer-up, drag or resize) and at no other step: not on a
\* pointer-move, not on a pointer-down, not for a pointer-down that started
\* no session.
Ended == { i \in Clips : session[i].kind # "Idle" /\ session'[i].kind = "Idle" }

C11_InvalidationPerSession ==
  [][ invalidations' = invalidations + Cardinality(Ended) ]_vars

\* A pointer-down that started nothing and a resize that completed: one
\* invalidation for two pointer-downs.
C11_Witness ==
  /\ NoSession
  /\ nSessions = 2
  /\ invalidations = 1
  /\ lastUpdate.fields = {"duration", "timestamp"}

\* C12: a pointer-down that finds no clip element or no timeline container
\* starts no session: no listener is registered, timestamp and duration stay,
\* no store update and no invalidation is issued.
PointerDown == nSessions' = nSessions + 1

C12_NoSessionWithoutBounds ==
  [][ (PointerDown /\ ~(dom.element /\ dom.timeline)) =>
        /\ session' = session
        /\ dispatch'.listeners = dispatch.listeners
        /\ frame' = frame
        /\ store' = store
        /\ nUpdates' = nUpdates
        /\ invalidations' = invalidations ]_vars

\* A pointer-down was handled while the timeline container was not found,
\* and nothing has started.
C12_Witness ==
  /\ nSessions = 1
  /\ ~dom.timeline
  /\ NoSession
  /\ nUpdates = 0
  /\ invalidations = 0

\* C13: once a pointer-move of a resize session found no bounds, the session
\* changes nothing any more: the clip's timestamp and duration in memory and
\* in the store stay as they are, through the following pointer-up as well.
C13_BoundsLostNoMutation ==
  [][ \A i \in Clips :
        (session[i].kind = "Resizing" /\ session[i].boundsLost) =>
          (frame'[i] = frame[i] /\ store'[i] = store[i]) ]_vars

\* C14: over a timeline of rendered width 0 no step of a drag or resize
\* session changes a timestamp or duration in memory or in the store.
C14_ZeroWidthNoMutation ==
  [][ parentWidth = 0 => (frame' = frame /\ store' = store) ]_vars

\* C15: a clip whose media item is not found never has a session and its
\* timestamp and duration never change, in memory or in the store.
C15_MissingMediaNotInteractive ==
  [][ \A i \in Clips :
        media[i] = NotFound =>
          /\ session[i].kind = "Idle" /\ session'[i].kind = "Idle"
          /\ frame'[i] = frame[i]
          /\ store'[i] = store[i] ]_vars

\* Sessions have run on a track that holds a clip without media item.
C15_Witness ==
  /\ \E i \in Clips : media[i] = NotFound /\ frame[i] = store[i]
  /\ nUpdates >= 1
  /\ invalidations >= 1
  /\ NoSession

\* deltaX of the session's last pointer event
DeltaX(i) == session[i].clientX - session[i].startX

\* C16: a left-edge resize move that would drive the duration below 1000 ms
\* sets the duration to exactly 1000 and the timestamp so that
\* timestamp + 1000 is the clip's right edge before the resize.
C16_MinDurationKeepsRightEdge ==
  \A i \in Clips :
    ( /\ Resizing(i, "left") /\ session[i].moves > 0
      /\ PixelsToMs(session[i].startWidth - DeltaX(i)) < 1000 )
    => /\ frame[i].duration = 1000
       /\ frame[i].timestamp + 1000
            = session[i].startTimestamp + session[i].startDuration

\* The media's resolved duration, 5000 when unresolved.
MaxDurationMs(i) == IF media[i] = Unresolved THEN 5000 ELSE media[i][1]

\* A right-edge resize that started at the maximum and whose pointer has
\* moved to the right.
AtCapPulledRight(i) ==
  /\ Resizing(i, "right") /\ session[i].moves > 0
  /\ session[i].startDuration = MaxDurationMs(i)
  /\ DeltaX(i) > 0

\* C17 as stated: a right-edge resize move never leaves the duration above
\* the maximum, and for a clip already at the maximum any positive pointer
\* delta leaves the duration at the maximum and the timestamp unchanged.
C17_CapHoldsDuration ==
  \A i \in Clips :
    /\ (Resizing(i, "right") /\ session[i].moves > 0)
         => frame[i].duration <= MaxDurationMs(i)
    /\ AtCapPulledRight(i)
         => /\ frame[i].duration = MaxDurationMs(i)
            /\ frame[i].timestamp = session[i].startTimestamp

\* C18: two sessions that were active at once on two different clips of a
\* track, their pointer-moves handled in any order: once both have ended the
\* intervals of the clips do not overlap.
C18_ConcurrentSessionsNoOverlap ==
  (dispatch.concurrent /\ dispatch.listeners = << >> /\ NoSession)
  => \A i, j \in Clips : i # j => ~Overlap(frame[i], frame[j])

\* C19: during a left-edge resize, after every pointer-move the clip's left
\* edge is not before the left bound (the previous sibling's right edge, or
\* 0), provided the gap between that bound and the anchored right edge is
\* at least the width of the minimum duration.
C19_LeftEdgeWithinBound ==
  \A i \in Clips :
    ( /\ Resizing(i, "left") /\ session[i].moves > 0
      /\ session[i].startLeft + session[i].startWidth - LeftLimit(i)
           >= MsToPixels(1000) )
    => PixelsToMs(LeftLimit(i)) <= frame[i].timestamp

\* The pointer asked for a left edge before the bound and the clip stands
\* at the bound.
C19_Witness ==
  \E i \in Clips :
    /\ Resizing(i, "left") /\ session[i].moves > 0
    /\ session[i].startLeft + session[i].startWidth - LeftLimit(i)
         >= MsToPixels(1000)
    /\ session[i].startLeft + DeltaX(i) < LeftLimit(i)
    /\ frame[i].timestamp = PixelsToMs(LeftLimit(i))

\* C20: after every pointer-move of a right-edge resize the timestamp is the
\* one at pointer-down; only the duration changes.
C20_RightResizeKeepsTimestamp ==
  \A i \in Clips :
    (Resizing(i, "right") /\ session[i].moves > 0)
    => /\ frame[i].timestamp = session[i].startTimestamp
       /\ store[i].timestamp = session[i].startTimestamp

\* A right-edge resize has changed the duration.
C20_Witness ==
  \E i \in Clips :
    /\ Resizing(i, "right") /\ session[i].moves > 0
    /\ frame[i].duration # session[i].startDuration
    /\ frame[i].timestamp = session[i].startTimestamp

\* ---------------------------------------------------------------- C21
\* The unrounded timestamp of a drag whose clamped left offset is newLeft
RawTimestamp(newLeft) == Max(0, PixelsToMs(newLeft))

DragMoved(i) ==
  /\ session[i].kind = "Dragging" /\ session'[i].kind = "Dragging"
  /\ session'[i].moves = session[i].moves + 1

DragEnded(i) == session[i].kind = "Dragging" /\ session'[i].kind = "Idle"

\* C21: every pointer-move of a drag issues exactly one store update, keyed by
\* the clip and carrying only the unrounded timestamp of that move; the
\* drag's pointer-up issues no update and rounds nothing, so the stored
\* timestamp stays the unrounded value of the last move.
C21_DragStoresRawTimestamp ==
  [][\A i \in Clips :
       /\ DragMoved(i) =>
            /\ nUpdates' = nUpdates + 1
            /\ lastUpdate'.id = i /\ lastUpdate'.fields = {"timestamp"}
            /\ lastUpdate'.timestamp = RawTimestamp(session'[i].newLeft)
            /\ store'[i].timestamp = RawTimestamp(session'[i].newLeft)
       /\ DragEnded(i) =>
            /\ UNCHANGED << frame, store, nUpdates, lastUpdate >>
            /\ session[i].moves > 0 =>
                 store'[i].timestamp = RawTimestamp(session[i].newLeft)]_vars

\* A drag has ended and left a timestamp off the grid in the store.
C21_Witness ==
  /\ NoSession /\ invalidations > 0 /\ nUpdates > 0
  /\ lastUpdate.fields = {"timestamp"}
  /\ store[lastUpdate.id].timestamp = lastUpdate.timestamp
  /\ lastUpdate.timestamp % gridMs # 0

\* ---------------------------------------------------------------- C24
\* C24: a session creates and deletes no clip and changes no clip's identity,
\* track membership or media reference: the track keeps its clips, and every
\* store operation is an update keyed by an existing clip's id that sets
\* only timestamp and/or duration and leaves every other row as it was.
C24_SessionsOnlyUpdateExistingClip ==
  [][/\ DOMAIN store' = DOMAIN store
     /\ DOMAIN frame' = DOMAIN frame
     /\ media' = media
     /\ nUpdates' = nUpdates => store' = store
     /\ nUpdates' # nUpdates =>
          /\ lastUpdate'.id \in DOMAIN store
          /\ lastUpdate'.fields # {}
          /\ lastUpdate'.fields \subseteq {"timestamp", "duration"}
          /\ \A j \in DOMAIN store \ {lastUpdate'.id} : store'[j] = store[j]]_vars

\* A drag and a resize have both written the store, and the track has the
\* clips it started with.
C24_Witness ==
  /\ NoSession /\ nUpdates > 1
  /\ lastUpdate.fields = {"duration", "timestamp"}
  /\ store[lastUpdate.id].timestamp = lastUpdate.timestamp
  /\ store[lastUpdate.id].duration = lastUpdate.duration
  /\ Len(store) = Len(media)

\* ---------------------------------------------------------------- C27
ResizeMoved(i) ==
  /\ session[i].kind = "Resizing" /\ session'[i].kind = "Resizing"
  /\ session'[i].moves = session[i].moves + 1

ResizeEnded(i) == session[i].kind = "Resizing" /\ session'[i].kind = "Idle"

\* percent is ms / 30000 of the timeline width written with two decimals:
\* a multiple of 0.01 % at most 0.005 % away.
TwoDecimalsOf(percent, ms) ==
  /\ percent % (Sub \div 100) = 0
  /\ 2 * percent - 2 * MsToPercent(ms) <= Sub \div 100
  /\ 2 * MsToPercent(ms) - 2 * percent <= Sub \div 100

\* C27 as stated: after every drag or resize pointer-move the element's left
\* is timestamp / 30000 of the timeline width (drag, left-edge resize) and
\* its width is duration / 30000 of it (resize), and after the resize's
\* pointer-up both are those of the rounded values.
C27_GeometryReflectsClip ==
  [][\A i \in Clips :
       /\ DragMoved(i) => style'[i].left = MsToPercent(frame'[i].timestamp)
       /\ ResizeMoved(i) =>
            /\ style'[i].width = MsToPercent(frame'[i].duration)
            /\ session[i].direction = "left" =>
                 style'[i].left = MsToPercent(frame'[i].timestamp)
       /\ ResizeEnded(i) =>
            /\ style'[i].width = MsToPercent(frame'[i].duration)
            /\ style'[i].left = MsToPercent(frame'[i].timestamp)]_vars

\* C27, amended: the drag's left and the resize's width are the exact
\* percentages; the left written by a left-edge resize move and by the
\* resize's pointer-up is the percentage with two decimals.
C27_GeometryReflectsClipToTwoDecimals ==
  [][\A i \in Clips :
       /\ DragMoved(i) => style'[i].left = MsToPercent(frame'[i].timestamp)
       /\ ResizeMoved(i) =>
            /\ style'[i].width = MsToPercent(frame'[i].duration)
            /\ session[i].direction = "left" =>
                 TwoDecimalsOf(style'[i].left, frame'[i].timestamp)
       /\ ResizeEnded(i) =>
            /\ style'[i].width = MsToPercent(frame'[i].duration)
            /\ TwoDecimalsOf(style'[i].left, frame'[i].timestamp)]_vars

\* A left-edge resize has moved and the left written is not the exact
\* percentage of the timestamp.
C27_Witness ==
  \E i \in Clips :
    /\ Resizing(i, "left") /\ session[i].moves > 0
    /\ style[i].width = MsToPercent(frame[i].duration)
    /\ style[i].left # MsToPercent(frame[i].timestamp)

\* ---------------------------------------------------------------- C28
\* Clip i with timestamp and duration f overlaps no sibling, lies in the
\* timeline and has a duration in [minDuration, maxDuration].
WellPlaced(i, f) ==
  /\ \A j \in Clips \ {i} : ~Overlap(f, frame[j])
  /\ 0 <= f.timestamp /\ End(f) <= 30 * 1000
  /\ minDuration <= f.duration /\ f.duration <= MaxDurationMs(i)

\* C28: the rounding at resize pointer-up preserves the placement: a clip
\* that just before pointer-up overlaps no sibling, lies in the timeline and
\* has a duration in [minDuration, maxDuration] still does after timestamp
\* and duration are each rounded to the nearest 100 ms.
C28_RoundingKeepsPlacement ==
  [][\A i \in Clips :
       ResizeEnded(i) /\ WellPlaced(i, frame[i]) => WellPlaced(i, frame'[i])]_vars

\* ---------------------------------------------------------------- C29
\* C29: pointer-moves are path-independent within a session: a move sequence
\* ending at pointer X and the same sequence followed by one more move at X
\* give the same timestamp and duration, that is, a pointer-move at the
\* pointer position of the session's previous move changes nothing.
C29_MovesPathIndependent ==
  [][\A i \in Clips :
       /\ DragMoved(i) \/ ResizeMoved(i)
       /\ session[i].moves > 0
       /\ session'[i].clientX = session[i].clientX
       => frame'[i] = frame[i]]_vars

\* ---------------------------------------------------------------- C23
\* The left offset a drag session s reaches with the pointer at clientX:
\* the offset at pointer-down plus the pointer's distance from pointer-down,
\* held in the captured bounds.
OffsetAtPointer(s, clientX) ==
  LET proposed == s.startLeft + (clientX - s.startX)
  IN IF proposed < s.bounds.leftBoundPixels THEN s.bounds.leftBoundPixels
     ELSE IF proposed > s.bounds.rightBoundPixels THEN s.bounds.rightBoundPixels
     ELSE proposed

Active(kind) == kind \in {"Dragging", "Resizing"}

\* C22: a clip's session goes Idle -> Dragging -> Idle or Idle -> Resizing
\* (left or right, fixed for the session) -> Idle. It leaves Idle only in a
\* pointer-down, which registers the clip's listeners; it returns to Idle
\* only in the clip's own pointer-up handler, which removes them; and while
\* the clip is Idle no document pointer-move or pointer-up reaches it: its
\* values in memory, on screen and in the store stay, no store update is for
\* it and only an ending session invalidates.
C22_SessionLifecycle ==
  [][\A i \in Clips :
       /\ session[i].kind = "Idle" /\ Active(session'[i].kind) =>
            /\ dispatch.pending = << >>
            /\ i \notin Registered
            /\ \E k \in 1 .. Len(dispatch'.listeners) : dispatch'.listeners[k] = i
       /\ Active(session[i].kind) /\ Active(session'[i].kind) =>
            /\ session'[i].kind = session[i].kind
            /\ session'[i].direction = session[i].direction
       /\ Active(session[i].kind) /\ session'[i].kind = "Idle" =>
            /\ Dispatching("mouseup", i)
            /\ \A k \in 1 .. Len(dispatch'.listeners) : dispatch'.listeners[k] # i
            /\ \A k \in 1 .. Len(dispatch'.pending) : dispatch'.pending[k] # i
            /\ invalidations' = invalidations + 1
       /\ session[i].kind = "Idle" /\ session'[i].kind = "Idle" =>
            /\ frame'[i] = frame[i] /\ style'[i] = style[i] /\ store'[i] = store[i]
            /\ nUpdates' # nUpdates => lastUpdate'.id # i
       /\ invalidations' # invalidations =>
            \E j \in Clips : Active(session[j].kind) /\ session'[j].kind = "Idle"]_vars

\* Clip i's session has ended after writing the store, and after that a
\* document pointer-move was handled by another clip's session only.
C22_Witness ==
  \E i, j \in Clips :
    /\ session[i].kind = "Idle" /\ nUpdates > 0 /\ lastUpdate.id = i
    /\ i \notin Registered
    /\ session[j].kind = "Resizing" /\ session[j].moves > 0
    /\ dispatch.pending = << >>

\* ---------------------------------------------------------------- C25
\* Clip i's delete mutation settles in this step.
DeleteSettles(i) == i \in async.deleting /\ i \notin async'.deleting

\* C25: the downstream cache refresh runs once for every delete the store
\* completed and only then: a delete that settles with success refreshes, a
\* delete that fails does not, and nothing else refreshes.
C25_RefreshOnlyAfterDelete ==
  [][/\ \A i \in Clips :
          DeleteSettles(i) =>
            IF i \in async'.deleted
            THEN async'.refreshes = async.refreshes + 1
            ELSE async'.refreshes = async.refreshes /\ i \in async'.rejected
     /\ async'.refreshes # async.refreshes =>
          \E i \in Clips : DeleteSettles(i) /\ i \in async'.deleted
     /\ async'.deleted # async.deleted =>
          \E i \in Clips : DeleteSettles(i)]_vars

\* A delete has failed without a refresh and a later delete of the clip has
\* succeeded with one.
C25_Witness ==
  /\ async.rejected # {} /\ async.deleted # {}
  /\ async.refreshes = Cardinality(async.deleted)
  /\ \E i \in async.deleted : ~Rendered(i)

\* ---------------------------------------------------------------- C26
\* The preview re-read served in this step
ReadServed == async.reads # << >> /\ async'.reads = Tail(async.reads)

\* C26: the re-read of the preview that a resize pointer-up's invalidation
\* triggers observes the committed, rounded values whatever the completion
\* order: when it is served, the update issued at that pointer-up has
\* completed, or the row it reads holds that update's values all the same.
C26_PreviewSeesCommit ==
  [][ReadServed /\ Head(async.reads).commit =>
       LET r == Head(async.reads)
           u == r.update
       IN \/ r.after <= async.completed
          \/ async'.preview[u.id] =
               [ timestamp |-> u.timestamp, duration |-> u.duration ]]_vars

\* ---------------------------------------------------------------- C30
\* C30: the pointer-up of a resize session that saw no pointer-move still
\* rounds timestamp and duration to multiples of 100, issues one store
\* update carrying both and one invalidation; a right-edge resize so changes
\* a timestamp that was no multiple of 100.
C30_ResizeWithoutMoveCommits ==
  [][\A i \in Clips :
       ResizeEnded(i) /\ session[i].moves = 0 =>
         /\ frame'[i] = [ timestamp |-> Round100(frame[i].timestamp),
                          duration |-> Round100(frame[i].duration) ]
         /\ OnGrid(frame'[i])
         /\ nUpdates' = nUpdates + 1
         /\ lastUpdate' = [ id |-> i, fields |-> {"duration", "timestamp"},
                            timestamp |-> frame'[i].timestamp,
                            duration |-> frame'[i].duration ]
         /\ invalidations' = invalidations + 1]_vars

\* A right-edge resize without a pointer-move has committed and the clip's
\* timestamp, left off the grid by a drag, is another one after the commit.
C30_Witness ==
  /\ NoSession
  /\ async.lastCommit.direction = "right" /\ async.lastCommit.moves = 0
  /\ async.lastCommit.timestamp % gridMs # 0
  /\ lastUpdate.id = async.lastCommit.id
  /\ lastUpdate.fields = {"duration", "timestamp"}
  /\ frame[lastUpdate.id].timestamp # async.lastCommit.timestamp
  /\ store[lastUpdate.id].timestamp = Round100(async.lastCommit.timestamp)

\* ---------------------------------------------------------------- C31
\* C31: a drag session without a pointer-move leaves the clip's timestamp
\* and duration as they were at pointer-down, in memory and in the store,
\* issues no store update and issues exactly one invalidation, at pointer-up.
C31_DragWithoutMoveChangesNothing ==
  [][\A i \in Clips :
       /\ session[i].kind = "Idle" /\ session'[i].kind = "Dragging" =>
            UNCHANGED << frame, store, nUpdates, lastUpdate, invalidations >>
       /\ DragEnded(i) /\ session[i].moves = 0 =>
            /\ frame[i].timestamp = session[i].startTimestamp
            /\ frame[i].duration = session[i].startDuration
            /\ UNCHANGED << frame, store, nUpdates, lastUpdate >>
            /\ invalidations' = invalidations + 1]_vars

\* The one session so far has ended with an invalidation and without a store
\* update: a drag without a pointer-move.
C31_Witness ==
  /\ NoSession /\ nSessions = 1
  /\ invalidations = 1 /\ nUpdates = 0
  /\ store = frame

\* ---------------------------------------------------------------- C32
\* C32: whenever no session is active and every issued store update has been
\* applied, in issue order, the stored timestamp and duration of every clip
\* of the track equal its in-memory timestamp and duration.
C32_StoreEqualsMemoryWhenIdle ==
  NoSession /\ async.pending = << >> =>
    \A i \in Clips \ async.deleted :
      /\ async.committed[i].timestamp = frame[i].timestamp
      /\ async.committed[i].duration = frame[i].duration
      /\ store[i] = async.committed[i]

\* A drag's updates and the commit of a resize that moved have all been
\* applied, no session is active and the clip is not where it started.
C32_Witness ==
  /\ NoSession /\ async.pending = << >> /\ async.completed > 1
  /\ async.lastCommit.moves > 0
  /\ \E i \in Clips \ async.deleted :
       /\ async.lastCommit.id = i
       /\ async.committed[i] = frame[i]
       /\ \A t \in StoreTracks :
            /\ frame[i].timestamp # t[i].timestamp
            /\ frame[i].duration # t[i].duration

\* ---------------------------------------------------------------- C34
\* The listener at the head of the dispatch handles the event in this step.
Handles(type, i) == Dispatching(type, i) /\ dispatch'.pending = Tail(dispatch.pending)

\* C34: sessions are not arbitrated. A pointer-down while another session is
\* active starts a session next to it and leaves the other as it is; every
\* document event goes to every listener registered; each session handles
\* the same pointer-move; and one pointer-up ends every active session, each
\* with its own invalidation, so that no listener stays registered.
C34_SessionsNotArbitrated ==
  [][/\ \A i \in Clips :
          session[i].kind = "Idle" /\ Active(session'[i].kind) =>
            /\ dispatch'.listeners = Append(dispatch.listeners, i)
            /\ \A k \in Clips \ {i} : session'[k] = session[k]
     /\ dispatch.pending = << >> /\ dispatch'.pending # << >> =>
          /\ dispatch'.pending = dispatch.listeners
          /\ \A i \in Clips : Active(session[i].kind) => i \in Registered
     /\ \A i \in Clips :
          Handles("mousemove", i) =>
            /\ Active(session'[i].kind)
            /\ session'[i].clientX = Px(dispatch.clientX)
            /\ session'[i].moves = session[i].moves + 1
     /\ \A i \in Clips :
          Handles("mouseup", i) =>
            /\ Active(session[i].kind) /\ session'[i].kind = "Idle"
            /\ invalidations' = invalidations + 1
            /\ dispatch'.pending = << >> =>
                 /\ dispatch'.listeners = << >>
                 /\ \A k \in Clips : session'[k].kind = "Idle"]_vars

\* Two sessions were active at once, both handled a pointer-move, and one
\* pointer-up has ended both: no listener is left and each session has
\* invalidated.
C34_Witness ==
  /\ dispatch.concurrent /\ dispatch.listeners = << >> /\ NoSession
  /\ nSessions = 2 /\ invalidations = 2
  /\ \A t \in ConcTracks, i \in Clips :
       frame[i] # [ timestamp |-> t[i].timestamp, duration |-> t[i].duration ]

\* ---------------------------------------------------------------- C33
\* The last onMouseDown handler of a pointer-down runs in this step.
PointerDownDone == dispatch.path # << >> /\ dispatch'.path = << >>

\* C33: a pointer-down on a resize handle starts a resize session in the
\* handle's direction and nothing on the way up runs after it; a pointer-down
\* on the clip's body starts a drag session; either way the pointer-down has
\* registered exactly one pair of listeners when its handlers are done.
C33_OnePointerDownOneSession ==
  [][/\ (dispatch.path # << >> /\ Head(dispatch.path) = "handleResize"
         /\ dispatch'.path # dispatch.path) => dispatch'.path = << >>
     /\ PointerDownDone =>
          LET e == dispatch.down
          IN /\ Len(dispatch'.listeners) = e.listeners + 1
             /\ dispatch'.listeners = Append(dispatch.listeners, e.clip)
             /\ nSessions' = nSessions + 1
             /\ IF e.target = "body"
                THEN session'[e.clip].kind = "Dragging"
                ELSE /\ session'[e.clip].kind = "Resizing"
                     /\ session'[e.clip].direction = e.target]_vars

\* A pointer-down on a resize handle is done: the clip is in a resize
\* session and its pair of listeners is the only one added.
C33_Witness ==
  /\ dispatch.path = << >> /\ dispatch.pending = << >>
  /\ dispatch.down.target \in {"left", "right"}
  /\ Len(dispatch.listeners) = dispatch.down.listeners + 1
  /\ session[dispatch.down.clip].kind = "Resizing"
  /\ session[dispatch.down.clip].moves = 0

\* ---------------------------------------------------------------- C35
RECURSIVE SumOfTotals(_)
SumOfTotals(stats) ==
  IF stats = << >> THEN 0
  ELSE stats[Len(stats)].totalGenerations
         + SumOfTotals(SubSeq(stats, 1, Len(stats) - 1))

\* The items that are generated and have an endpoint id
Generated(items) ==
  { k \in 1 .. Len(items) :
      /\ items[k].kind = "generated"
      /\ items[k].endpointId \notin {NoEndpoint, EmptyEndpoint} }

\* C35: calculateModelStats counts the generated items that have an endpoint
\* id, grouped by normalized model id: one group for every normalized id
\* among them, each with the number of those items in totalGenerations, so
\* the totals sum to their number; and in a group whose ratings are all
\* positive, negative or undefined, positive + negative + unrated is
\* totalGenerations.
C35_ModelStatsCountGenerated ==
  analytics.view = "stats" /\ analytics.rendered =>
    LET items == analytics.mediaItems
        stats == analytics.modelStats
        Group(g) == { k \in Generated(items) :
                        normalizeModelId(items[k].endpointId) = stats[g].modelId }
    IN /\ SumOfTotals(stats) = Cardinality(Generated(items))
       /\ \A k \in Generated(items) : \E g \in 1 .. Len(stats) : k \in Group(g)
       /\ \A g, h \in 1 .. Len(stats) :
            g # h => stats[g].modelId # stats[h].modelId
       /\ \A g \in 1 .. Len(stats) :
            /\ stats[g].totalGenerations = Cardinality(Group(g))
            /\ stats[g].totalGenerations > 0
            /\ (\A k \in Group(g) :
                  items[k].rating \in {"positive", "negative", undefined})
               => stats[g].positive + stats[g].negative + stats[g].unrated
                    = stats[g].totalGenerations

\* Two generated items with different endpoint ids are counted in one group,
\* one rated positive and one unrated.
C35_Witness ==
  /\ analytics.view = "stats" /\ analytics.rendered
  /\ Len(analytics.modelStats) = 1
  /\ analytics.modelStats[1].totalGenerations = 2
  /\ analytics.modelStats[1].positive = 1 /\ analytics.modelStats[1].unrated = 1
  /\ analytics.mediaItems[1].endpointId # analytics.mediaItems[2].endpointId

\* ---------------------------------------------------------------- C36
\* The analysis call of the category settles in this step.
Settles(c) == analytics'.calls[c] < analytics.calls[c]

\* C36: a category's analyzing flag is true exactly while its analysis call
\* is pending: set at the start of handleAnalyze, reset to false when the
\* call settles, resolved or rejected; and a result is stored for the
\* category only when its call resolves.
C36_AnalyzingWhilePending ==
  [][\A c \in MediaTypes :
       /\ truthy(analytics.analyzing, c) <=> analytics.calls[c] > 0
       /\ truthy(analytics'.analyzing, c) <=> analytics'.calls[c] > 0
       /\ Settles(c) =>
            /\ c \in DOMAIN analytics'.analyzing
            /\ analytics'.analyzing[c] = FALSE
            /\ analytics'.outcome[c] = "rejected" =>
                 analytics'.analysisResults = analytics.analysisResults
       /\ (c \in DOMAIN analytics'.analysisResults
           /\ c \notin DOMAIN analytics.analysisResults) =>
            Settles(c) /\ analytics'.outcome[c] = "resolved"]_vars

\* One category's call has failed: its flag is false again and no result is
\* stored for it; another category's call has succeeded and its result is
\* stored.
C36_Witness ==
  /\ analytics.view = "prompts"
  /\ \E c, d \in MediaTypes :
       /\ analytics.outcome[c] = "rejected" /\ analytics.calls[c] = 0
       /\ c \in DOMAIN analytics.analyzing /\ analytics.analyzing[c] = FALSE
       /\ c \notin DOMAIN analytics.analysisResults
       /\ analytics.outcome[d] = "resolved" /\ analytics.calls[d] = 0
       /\ present(analytics.analysisResults, d)
       /\ analytics.analyzing[d] = FALSE

\* The categories with at least one generated item that has a prompt, a rating
\* and an endpoint id
RatedCategories ==
  { c \in PromptMediaTypes :
      \E k \in 1..Len(analytics.mediaItems) :
        LET item == analytics.mediaItems[k]
        IN /\ item.kind = "generated"
           /\ item.mediaType = c
           /\ item.prompt # undefined
           /\ item.rating # undefined
           /\ item.endpointId # NoEndpoint }

\* C37: analyzeWithGemini never fails. When the LLM call fails it returns the
\* analysis with empty pattern lists and the one recommendation "An error
\* occurred while analyzing prompts"; when the response is no JSON it returns
\* the "could not analyze" analysis. So analyzePrompts never rejects and, once
\* it has returned, holds exactly one analysis for every category with at
\* least one rated prompt that has an endpoint id.
C37_AnalyzeWithGeminiNeverFails ==
  analytics.view = "analysis" =>
    /\ analytics.phase # "rejected"
    /\ \A c \in PromptMediaTypes :
         LET call == analytics.calls[c]
         IN /\ call.state # "rejected"
            /\ (call.state # "none" /\ call.response = "rejected") =>
                 /\ call.state = "resolved"
                 /\ call.analysis.successPatterns = << >>
                 /\ call.analysis.evolutionInsights = << >>
                 /\ call.analysis.sceneAnalysis = << >>
                 /\ call.analysis.recommendations =
                      << "An error occurred while analyzing prompts" >>
            /\ (call.state # "none" /\ call.response = "text") =>
                 /\ call.state = "resolved"
                 /\ call.analysis.successPatterns =
                      << "Could not analyze patterns in prompts" >>
                 /\ call.analysis.evolutionInsights =
                      << "Could not analyze prompt evolution" >>
    /\ analytics.phase = "resolved" =>
         /\ Len(analytics.analyses) = Cardinality(RatedCategories)
         /\ \A c \in RatedCategories :
              Cardinality({ k \in 1..Len(analytics.analyses) :
                              analytics.analyses[k].category = c }) = 1

\* analyzePrompts has returned two analyses: one after the LLM call failed,
\* one after a response that is no JSON
C37_Witness ==
  /\ analytics.view = "analysis"
  /\ analytics.phase = "resolved"
  /\ Len(analytics.analyses) = 2
  /\ \E c, d \in PromptMediaTypes :
       /\ analytics.calls[c].response = "rejected"
       /\ analytics.calls[d].response = "text"
====
